---- MODULE Spec2Model ----
(***************************************************************************)
(* Model of bowling_game_calc.py: total_score(data) tokenizes a string of  *)
(* throws with regex_parse and folds the throw list with the recursive     *)
(* score(throws, frame, total).                                            *)
(*                                                                         *)
(* A Python str is modelled as a sequence of one-character strings, a      *)
(* Python list of ints as a sequence of integers (1-based here, 0-based in *)
(* the source).                                                            *)
(***************************************************************************)
EXTENDS Integers, Sequences, FiniteSets, TLC

VARIABLES
    data,     \* the argument of total_score
    pc,       \* "total_score" | "regex_parse" | "score" | "done" | "raised"
    f_list,   \* regex_parse's filtered character list
    parsed,   \* the list handed to the outermost call of score
    throws,   \* score's parameter throws in the current call
    frame,    \* score's parameter frame in the current call
    total,    \* score's parameter total in the current call
    result    \* the value returned to the caller (meaningful when pc = "done")

vars == <<data, pc, f_list, parsed, throws, frame, total, result>>

----------------------------------------------------------------------------
(* Bounds of the model *)

\* longest arbitrary input string
MaxLen == 3
\* longest arbitrary tail of a throw list handed to score directly
MaxTail == 3
\* most leading copies of one frame in a throw list handed to score directly
MaxPad == 10
\* most consecutive frames of a well-formed game that differ from its filler frame
MaxWin == 1

----------------------------------------------------------------------------
(* Program constants *)

\* frame > 10
LastFrame == 10
\* throws[0] == 10, sum(throws[0:2]) == 10, 10 - int(...), 10 if val is 'X'
AllPins == 10

----------------------------------------------------------------------------
(* regex_parse *)

DigitChars == <<"0", "1", "2", "3", "4", "5", "6", "7", "8", "9">>

\* \d in the pattern, and the strings int() accepts
IsDigit(c) == \E i \in 1..Len(DigitChars) : DigitChars[i] = c

\* int(c) for a one-character string; raises ValueError unless IsDigit(c)
int(c) == (CHOOSE i \in 1..Len(DigitChars) : DigitChars[i] = c) - 1

\* the characters re.sub(r'[^\d/X]', '', data) keeps
Retained(c) == IsDigit(c) \/ c = "/" \/ c = "X"

\* list(re.sub(r'[^\d/X]', '', data))
Filtered(d) == SelectSeq(d, Retained)

\* f_list[idx - 1]: for the first element the index is -1, Python's last element
PrevChar(fl, idx) == fl[IF idx = 1 THEN Len(fl) ELSE idx - 1]

\* int(f_list[idx - 1]) raises ValueError when that character is 'X' or '/'
ThrowRaises(fl, idx) == fl[idx] = "/" /\ ~IsDigit(PrevChar(fl, idx))

\* mutant: the spare's second throw computed with the wrong sign
ThrowValue_SpareAdds(fl, idx) ==
    IF fl[idx] = "/" THEN AllPins + int(PrevChar(fl, idx))
    ELSE IF fl[idx] = "X" THEN AllPins
    ELSE int(fl[idx])

\* one element of the list comprehension
ThrowValue(fl, idx) ==
    IF fl[idx] = "/" THEN AllPins - int(PrevChar(fl, idx))
    ELSE IF fl[idx] = "X" THEN AllPins
    ELSE int(fl[idx])

\* the comprehension raises as soon as one element does
ParseRaises(fl) == \E idx \in 1..Len(fl) : ThrowRaises(fl, idx)

\* the list regex_parse returns when no element raises
ParseList(fl) == [idx \in 1..Len(fl) |-> ThrowValue(fl, idx)]

----------------------------------------------------------------------------
(* score *)

\* throws[n:]
Drop(s, n) == SubSeq(s, n + 1, Len(s))

\* sum(throws[0:2])
Sum2(s) ==
    IF Len(s) = 0 THEN 0
    ELSE IF Len(s) = 1 THEN s[1]
    ELSE s[1] + s[2]

\* mutant: the frame limit is forgotten
IsExit_NoFrameLimit(t, f) == t = <<>>

\* mutant: the frame limit is off by one
IsExit_OffByOne(t, f) == f > LastFrame + 1 \/ t = <<>>

\* if frame > 10 or not throws
IsExit(t, f) == f > LastFrame \/ t = <<>>

\* elif throws[0] == 10
IsStrike(t) == t[1] = AllPins

\* elif sum(throws[0:2]) == 10 (reached only when not a strike)
IsSpare(t) == Sum2(t) = AllPins

\* mutant: the single bonus throw of an incomplete game is dropped
StrikeBonus_DropsSingle(t) == IF Len(t) >= 3 THEN t[2] + t[3] ELSE 0

\* mutant: the slice throws[1:3] taken one element too long
StrikeBonus_ThreeThrows(t) ==
    IF Len(t) >= 4 THEN t[2] + t[3] + t[4]
    ELSE IF Len(t) >= 3 THEN t[2] + t[3]
    ELSE IF Len(t) > 1 THEN t[2]
    ELSE 0

\* bonus of the strike branch
StrikeBonus(t) ==
    IF Len(t) >= 3 THEN t[2] + t[3]
    ELSE IF Len(t) > 1 THEN t[2]
    ELSE 0

\* mutant: the bonus read one element early, the spare's own second throw
SpareBonus_OffByOne(t) == IF Len(t) >= 3 THEN t[2] ELSE 0

\* bonus of the spare branch
SpareBonus(t) == IF Len(t) >= 3 THEN t[3] ELSE 0

\* what one call adds to total before it recurses
FrameScore(t) ==
    IF IsStrike(t) THEN AllPins + StrikeBonus(t)
    ELSE IF IsSpare(t) THEN AllPins + SpareBonus(t)
    ELSE Sum2(t)

\* mutant: a strike also pops the two throws read as its bonus
Popped_BonusConsumed(t) == IF IsStrike(t) THEN Drop(t, 3) ELSE Drop(t, 2)

\* the list one call hands to the next: throws[1:] or throws[2:]
Popped(t) == IF IsStrike(t) THEN Drop(t, 1) ELSE Drop(t, 2)

\* score(throws, frame, total) as a function
RECURSIVE score(_, _, _)
score(t, f, tot) ==
    IF IsExit(t, f) THEN tot
    ELSE score(Popped(t), f + 1, tot + FrameScore(t))

----------------------------------------------------------------------------
(* Inputs *)

\* characters of the arbitrary input strings: digits, strike, spare, separator
Chars == {"0", "5", "9", "X", "/", "-"}

Strings == UNION {[1..n -> Chars] : n \in 0..MaxLen}

\* the table of run_tests
PerfectGame ==
    <<"X", "-", "X", "-", "X", "-", "X", "-", "X", "-", "X", "-", "X", "-",
      "X", "-", "X", "-", "X", "-", "X", "X">>
OpenGame ==
    <<"9", "-", "9", "-", "9", "-", "9", "-", "9", "-", "9", "-", "9", "-",
      "9", "-", "9", "-", "9", "-">>
SpareGame ==
    <<"5", "/", "5", "/", "5", "/", "5", "/", "5", "/", "5", "/", "5", "/",
      "5", "/", "5", "/", "5", "/", "5">>
MixedGame ==
    <<"X", "7", "/", "9", "-", "X", "-", "8", "8", "/", "-", "6", "X", "X",
      "X", "8", "1">>
Tests == {PerfectGame, OpenGame, SpareGame, MixedGame}

----------------------------------------------------------------------------
(* Inputs of score called directly *)

\* pin counts of the arbitrary throws
Pins == {0, 3, 5, 10}

Tails == UNION {[1..n -> Pins] : n \in 0..MaxTail}

\* a strike, two spares and an open frame to fill the leading frames with
PadFrames == {<<10>>, <<5, 5>>, <<0, 10>>, <<3, 5>>}

RECURSIVE Repeat(_, _)
Repeat(fr, k) == IF k = 0 THEN <<>> ELSE fr \o Repeat(fr, k - 1)

ThrowLists == {Repeat(p, k) \o t : p \in PadFrames, k \in 0..MaxPad, t \in Tails}

----------------------------------------------------------------------------
(* Actions *)

\* total_score: the falsy-input shortcut, otherwise on to regex_parse
TotalScore ==
    /\ pc = "total_score"
    /\ IF data = <<>>
       THEN /\ pc' = "done"
            /\ result' = 0
       ELSE /\ pc' = "regex_parse"
            /\ UNCHANGED result
    /\ UNCHANGED <<data, f_list, parsed, throws, frame, total>>

\* regex_parse, and the outermost call score(regex_parse(data)) with the defaults
\* frame=1, total=0; a ValueError propagates out of total_score
RegexParse ==
    /\ pc = "regex_parse"
    /\ f_list' = Filtered(data)
    /\ IF ParseRaises(f_list')
       THEN /\ pc' = "raised"
            /\ UNCHANGED <<parsed, throws, frame, total>>
       ELSE /\ pc' = "score"
            /\ parsed' = ParseList(f_list')
            /\ throws' = parsed'
            /\ frame' = 1
            /\ total' = 0
    /\ UNCHANGED <<data, result>>

\* one call of score that recurses: strike, spare or closed frame
ScoreStep ==
    /\ pc = "score"
    /\ ~IsExit(throws, frame)
    /\ throws' = Popped(throws)
    /\ frame' = frame + 1
    /\ total' = total + FrameScore(throws)
    /\ UNCHANGED <<data, pc, f_list, parsed, result>>

\* the exit case of score: total is returned through every pending call
ScoreReturn ==
    /\ pc = "score"
    /\ IsExit(throws, frame)
    /\ result' = total
    /\ pc' = "done"
    /\ UNCHANGED <<data, f_list, parsed, throws, frame, total>>

----------------------------------------------------------------------------
(* total_score on arbitrary short strings and on the run_tests table *)

Init ==
    /\ data \in Strings \cup Tests
    /\ pc = "total_score"
    /\ f_list = <<>>
    /\ parsed = <<>>
    /\ throws = <<>>
    /\ frame = 1
    /\ total = 0
    /\ result = 0

Next == TotalScore \/ RegexParse \/ ScoreStep \/ ScoreReturn

Spec == Init /\ [][Next]_vars

----------------------------------------------------------------------------
(* Claims about total_score on strings (specification Spec) *)

\* the tokenizer has returned its list to total_score
Tokenized == data # <<>> /\ pc \in {"score", "done"}

\* C1: for every input string total_score and the tokenizer return a result;
\* no input ends in an error outcome.
C1_NeverRaises == pc # "raised"

\* C2: total_score('X7/9-X-88/-6XXX81') returns 167.
C2_MixedGameIs167 == (data = MixedGame /\ pc = "done") => result = 167

\* C3: a '/' right after a retained 'X' or '/' is resolved against that
\* character's converted value, so once 'X/' has been tokenized the list is [10, 0].
C3_SpareAfterStrike ==
    (pc \notin {"total_score", "regex_parse"}) =>
        /\ \A idx \in 2..Len(f_list) :
              (f_list[idx] = "/" /\ f_list[idx - 1] \in {"X", "/"}) =>
                  /\ pc # "raised"
                  /\ idx <= Len(parsed)
                  /\ parsed[idx] = 10 - parsed[idx - 1]
        /\ (data = <<"X", "/">>) => (pc # "raised" /\ parsed = <<10, 0>>)

\* position in d of its i-th character that is a digit, 'X' or '/'
KeptAt(d, i) ==
    CHOOSE p \in 1..Len(d) :
        /\ d[p] \in {"0", "1", "2", "3", "4", "5", "6", "7", "8", "9", "X", "/"}
        /\ Cardinality({q \in 1..p :
               d[q] \in {"0", "1", "2", "3", "4", "5", "6", "7", "8", "9", "X", "/"}}) = i

\* C6: a list the tokenizer returns holds one integer per retained character,
\* in input order, each in 0..10; no retained character gives the empty list.
C6_OneThrowPerRetainedChar ==
    Tokenized =>
        /\ Len(parsed) = Cardinality({q \in 1..Len(data) :
               data[q] \in {"0", "1", "2", "3", "4", "5", "6", "7", "8", "9", "X", "/"}})
        /\ \A i \in 1..Len(parsed) :
              /\ parsed[i] \in 0..10
              /\ data[KeptAt(data, i)] = "X" => parsed[i] = 10
              /\ data[KeptAt(data, i)] \notin {"X", "/"} =>
                     DigitChars[parsed[i] + 1] = data[KeptAt(data, i)]

\* a separator was dropped, a strike and a spare were converted
C6_Witness ==
    /\ Tokenized
    /\ Len(parsed) < Len(data)
    /\ \E i \in 1..Len(f_list) : f_list[i] = "/"
    /\ \E i \in 1..Len(f_list) : f_list[i] = "X"

----------------------------------------------------------------------------
(* score(throws) called directly, with the defaults frame=1 and total=0 *)

InitScore ==
    /\ data = <<>>
    /\ pc = "score"
    /\ f_list = <<>>
    /\ parsed \in ThrowLists
    /\ throws = parsed
    /\ frame = 1
    /\ total = 0
    /\ result = 0

NextScore == ScoreStep \/ ScoreReturn

SpecScore == InitScore /\ [][NextScore]_vars

\* a call of score runs to its return: nothing suspends or pre-empts it
SpecScoreFair == SpecScore /\ WF_vars(NextScore)

----------------------------------------------------------------------------
(* Claims about score (specifications SpecScore and SpecScoreFair) *)

\* a call of score that will recurse
Stepping == pc = "score" /\ frame <= 10 /\ throws # <<>>

\* the list left after the first k frames of s
RECURSIVE RestAfter(_, _)
RestAfter(s, k) ==
    IF k = 0 \/ s = <<>> THEN s
    ELSE RestAfter(IF s[1] = 10 THEN Tail(s) ELSE SubSeq(s, 3, Len(s)), k - 1)

\* s holds ten frames and every bonus throw the tenth is entitled to
HoldsTenFrames(s) ==
    LET r == RestAfter(s, 9)
    IN  /\ r # <<>>
        /\ Len(r) >= (IF r[1] = 10 THEN 3
                      ELSE IF Len(r) >= 2 /\ r[1] + r[2] = 10 THEN 3
                      ELSE 2)

\* throws appended to a finished game
Extensions == UNION {[1..n -> Pins] : n \in 1..2}

\* C5: at most ten frames are scored and bonuses never re-trigger: appending
\* throws to a list that holds ten frames and their bonus throws leaves the
\* score unchanged.
C5_NoEleventhFrame ==
    (pc = "done" /\ HoldsTenFrames(parsed)) =>
        /\ frame = 11
        /\ \A e \in Extensions : score(parsed \o e, 1, 0) = result

\* a finished game followed by throws beyond any bonus was scored
C5_Witness ==
    pc = "done" /\ HoldsTenFrames(parsed) /\ frame = 11 /\ Len(throws) >= 3

\* C7: every scoring step increments the frame index and removes the first
\* throw of a strike, otherwise the first two throws (or the single remaining
\* one); the throws read as bonus stay and start the next frame.
C7_StepConsumes ==
    [][Stepping =>
        /\ frame' = frame + 1
        /\ throws' = (IF throws[1] = 10 THEN SubSeq(throws, 2, Len(throws))
                      ELSE SubSeq(throws, 3, Len(throws)))
        /\ (throws[1] = 10 /\ Len(throws) >= 2) => throws'[1] = throws[2]
        /\ (throws[1] # 10 /\ Len(throws) >= 3) => throws'[1] = throws[3]
      ]_vars

\* a strike was scored and its two bonus throws are the next call's list
C7_Witness ==
    /\ pc = "score"
    /\ frame = 2
    /\ parsed = <<10, 3, 5>>
    /\ throws = <<3, 5>>
    /\ total = 18

\* C8: on an incomplete game only the bonus throws that exist are added.
C8_PartialBonus ==
    /\ [][Stepping =>
            LET n == Len(throws)
                added == total' - total
            IN  /\ (throws[1] = 10 /\ n >= 3) => added = 10 + throws[2] + throws[3]
                /\ (throws[1] = 10 /\ n = 2) => added = 10 + throws[2]
                /\ (throws[1] = 10 /\ n = 1) => added = 10
                /\ (throws[1] # 10 /\ n >= 3 /\ throws[1] + throws[2] = 10) =>
                       added = 10 + throws[3]
                /\ (throws[1] # 10 /\ n = 2 /\ throws[1] + throws[2] = 10) =>
                       added = 10
                /\ (throws[1] < 10 /\ n = 1) => added = throws[1]
         ]_vars
    /\ []((pc = "done" /\ parsed = <<5>>) => result = 5)

\* a strike followed by a single throw was scored with that throw as its bonus
C8_Witness == pc = "done" /\ parsed = <<10, 5>> /\ result = 20

\* the smaller of two numbers
Min(a, b) == IF a <= b THEN a ELSE b

\* C9: scoring terminates after at most min(10, number of throws) steps, every
\* step shortening the list by 1 or 2 throws and incrementing the frame index.
C9_Terminates ==
    /\ <>(pc = "done")
    /\ [](frame - 1 <= Min(10, Len(parsed)))
    /\ [][Stepping =>
            /\ Len(throws) - Len(throws') \in {1, 2}
            /\ frame' = frame + 1
         ]_vars

\* the scorer returned at the frame limit with throws left over
C9_Witness == pc = "done" /\ frame = 11 /\ throws # <<>> /\ Len(parsed) > 10

\* C10: for throws in 0..10 the running total never decreases, a step adds at
\* most 30 and the returned score is in 0..300.
C10_TotalBounded ==
    /\ [][total' >= total /\ total' - total <= 30]_vars
    /\ [](total \in 0..300)
    /\ []((pc = "done") => result \in 0..300)

\* twelve strikes were scored 300
C10_Witness == pc = "done" /\ result = 300 /\ Len(parsed) >= 12

----------------------------------------------------------------------------
(* total_score on well-formed complete games *)

\* digits the generated games are written with
GameDigits == {"0", "3", "5"}

StrikeFrame == <<"X">>
SpareFrames == {<<d, "/">> : d \in GameDigits}
OpenFrames ==
    {fr \in {<<a, b>> : a \in GameDigits, b \in GameDigits} : int(fr[1]) + int(fr[2]) < 10}
FrameKinds == {StrikeFrame} \cup SpareFrames \cup OpenFrames

\* the frame every position outside the window holds
FillFrames == {<<"X">>, <<"5", "/">>, <<"3", "5">>}

Windows == UNION {[1..n -> FrameKinds] : n \in 0..MaxWin}

\* the bonus throws written after the tenth frame
BonusAfter(fr) ==
    IF fr = StrikeFrame
    THEN {<<"X", "X">>} \cup {<<"X", d>> : d \in GameDigits} \cup SpareFrames \cup OpenFrames
    ELSE IF fr \in SpareFrames
    THEN {<<"X">>} \cup {<<d>> : d \in GameDigits}
    ELSE {<<>>}

\* frames i..10 written one after the other, with sep before each frame but the first
RECURSIVE Written(_, _, _)
Written(frames, i, sep) ==
    IF i > 10 THEN <<>>
    ELSE (IF i > 1 THEN sep ELSE <<>>) \o frames[i] \o Written(frames, i + 1, sep)

\* ten frames: the window w placed at frame start, the filler frame elsewhere
Frames(fill, w, start) ==
    [i \in 1..10 |-> IF i >= start /\ i < start + Len(w) THEN w[i - start + 1] ELSE fill]

Games ==
    UNION {
        {Written(Frames(fill, w, start), 1, sep) \o (IF b = <<>> THEN <<>> ELSE sep \o b) :
            b \in BonusAfter(Frames(fill, w, start)[10]), sep \in {<<>>, <<"-">>}} :
        fill \in FillFrames, w \in Windows, start \in 1..10}

InitGame ==
    /\ data \in Games
    /\ pc = "total_score"
    /\ f_list = <<>>
    /\ parsed = <<>>
    /\ throws = <<>>
    /\ frame = 1
    /\ total = 0
    /\ result = 0

SpecGame == InitGame /\ [][Next]_vars

----------------------------------------------------------------------------
(* Claim about well-formed games (specification SpecGame) *)

NotSeparator(c) == c # "-"

\* pins of the throw written as symbol i of sym
RefPins(sym, i) ==
    IF sym[i] = "X" THEN 10
    ELSE IF sym[i] = "/" THEN 10 - int(sym[i - 1])
    ELSE int(sym[i])

\* ten-pin score of frames f..10, symbol i being the first throw of frame f:
\* a strike scores 10 plus the next two throws, a spare 10 plus the next throw,
\* an open frame its pins; the tenth frame scores all its throws, bonus included
RECURSIVE RefScore(_, _, _)
RefScore(sym, i, f) ==
    IF f = 10
    THEN IF i > Len(sym) THEN 0 ELSE RefPins(sym, i) + RefScore(sym, i + 1, f)
    ELSE IF sym[i] = "X"
    THEN 10 + RefPins(sym, i + 1) + RefPins(sym, i + 2) + RefScore(sym, i + 1, f + 1)
    ELSE IF sym[i + 1] = "/"
    THEN 10 + RefPins(sym, i + 2) + RefScore(sym, i + 2, f + 1)
    ELSE int(sym[i]) + int(sym[i + 1]) + RefScore(sym, i + 2, f + 1)

\* C4: on every well-formed complete game total_score returns the standard
\* ten-pin score; twelve strikes score 300 and ten 5/ followed by 5 score 150.
C4_StandardScore ==
    (pc = "done") =>
        /\ result = RefScore(SelectSeq(data, NotSeparator), 1, 1)
        /\ SelectSeq(data, NotSeparator) = SelectSeq(PerfectGame, NotSeparator) => result = 300
        /\ SelectSeq(data, NotSeparator) = SpareGame => result = 150

\* a game of strikes around a spare written with a miss was scored
C4_Witness ==
    /\ pc = "done"
    /\ Len(data) > Len(f_list)
    /\ \E i \in 1..(Len(f_list) - 3) :
          /\ f_list[i] = "X"
          /\ f_list[i + 1] = "0"
          /\ f_list[i + 2] = "/"
          /\ f_list[i + 3] = "X"
    /\ result = RefScore(f_list, 1, 1)

====
